---- MODULE Spec2Model ----
(***************************************************************************)
(* Connection core of the Pumpkin server: the per-connection Client        *)
(* (pumpkin/src/client/mod.rs), the accept loop and connection task        *)
(* (pumpkin/src/main.rs) and the world's live-player map                   *)
(* (pumpkin/src/world/mod.rs).                                             *)
(*                                                                         *)
(* Bytes are naturals below 256.  A Rust Option is a sequence of length    *)
(* at most one: << >> is None, <<v>> is Some(v).                           *)
(***************************************************************************)
EXTENDS Integers, Sequences, FiniteSets, TLC

\* ------------------------------------------------------------------ bounds
\* Number of sockets the listener accepts.
MaxClients == 1
\* Length of poll's scratch buffer (vec![0; 4096] in the source), scaled down.
ScratchLen == 5
\* Number of failing socket writes / encodings the environment injects.
MaxFaults == 1
\* Length of the byte streams of the poll-only specification.
MaxWire == 4
\* Number of tokens (the players of the broadcast specification).
MaxTokens == 3
\* Number of sockets the listener accepts in the specification of the accept
\* loop alone.
MaxSockets == 2

\* Number of chunks streamed to a player that joins.
MaxChunks == 3
\* The view distance, the capacity of the chunk channel.
ViewDistance == 1

Tokens == 1..MaxTokens

HandShake == "HandShake"
Status == "Status"
Login == "Login"
Transfer == "Transfer"
Config == "Config"
Play == "Play"
ConnectionState == {HandShake, Status, Login, Transfer, Config, Play}

\* ---------------------------------------------------------- packet ids
\* PACKET_ID constants of the serverbound packets (pumpkin_protocol).
SHandShake_ID == 0
SStatusRequest_ID == 0
SStatusPingRequest_ID == 1
SLoginStart_ID == 0
SEncryptionResponse_ID == 1
SLoginPluginResponse_ID == 2
SLoginAcknowledged_ID == 3
SClientInformationConfig_ID == 0
SPluginMessage_ID == 2
SAcknowledgeFinishConfig_ID == 3
SKnownPacks_ID == 7
\* Cap on the uncompressed payload of one frame, 2^21 bytes.
MAX_PACKET_SIZE == 2097152
\* Compression threshold the server announces in SetCompression.
CompressionThreshold == 256

\* ------------------------------------------------------------- VarInt
RECURSIVE VarIntEncode(_)
\* 7-bit little-endian groups, high bit = continuation.
VarIntEncode(v) ==
    IF v < 128 THEN <<v>> ELSE <<128 + (v % 128)>> \o VarIntEncode(v \div 128)

RECURSIVE Pow128(_)
Pow128(k) == IF k = 0 THEN 1 ELSE 128 * Pow128(k - 1)

RECURSIVE VarIntDecodeFrom(_, _, _, _)
\* Decodes a VarInt of buf starting at index i; k groups read so far.
\* st is "ok" (val, next = index after it), "incomplete" or "malformed".
VarIntDecodeFrom(buf, i, k, acc) ==
    IF k = 5 THEN [st |-> "malformed"]
    ELSE IF i > Len(buf) THEN [st |-> "incomplete"]
    ELSE LET b == buf[i]
             v == acc + (b % 128) * Pow128(k)
         IN  IF b >= 128 THEN VarIntDecodeFrom(buf, i + 1, k + 1, v)
             ELSE [st |-> "ok", val |-> v, next |-> i + 1]

VarIntDecode(buf) == VarIntDecodeFrom(buf, 1, 0, 0)

\* Plain wire frame: len:VarInt | id:VarInt | payload.
Frame(id, payload) ==
    LET data == VarIntEncode(id) \o payload
    IN  VarIntEncode(Len(data)) \o data

\* ------------------------------------------------------- stream cipher
\* The stream cipher, abstracted to a keyed, invertible, non-identity byte map.
CipherShift(secret) == 1 + (secret[1] % 7)
Encrypt(key, bytes) ==
    IF key = << >> THEN bytes
    ELSE [i \in 1..Len(bytes) |-> (bytes[i] + CipherShift(key[1])) % 256]
Decrypt(key, bytes) ==
    IF key = << >> THEN bytes
    ELSE [i \in 1..Len(bytes) |-> (bytes[i] + 256 - CipherShift(key[1])) % 256]

\* ------------------------------------------------------------ decoder
PacketDecoder_default == [buf |-> << >>, compression |-> << >>, key |-> << >>]
PacketEncoder_default == [buf |-> << >>, compression |-> << >>, key |-> << >>]

\* queue(bytes): append to the staging buffer after decryption if enabled.
queue_slice(d, bytes) == [d EXCEPT !.buf = @ \o Decrypt(d.key, bytes)]

\* clear(): drop the staging buffer.
PacketDecoder_clear(d) == [d EXCEPT !.buf = << >>]

\* id:VarInt | payload of one frame's data.
DecodeData(data, rest) ==
    LET id == VarIntDecode(data)
    IN  IF id.st # "ok" THEN [st |-> "err", err |-> "MalformedVarInt"]
        ELSE [st |-> "packet",
              packet |-> [id |-> id.val,
                          bytebuf |-> SubSeq(data, id.next, Len(data))],
              rest |-> rest]

\* zlib inflate: no byte string of the alphabets used here is a zlib stream.
Inflate(bytes) == [st |-> "err", err |-> "DecompressionFailed"]

\* decode(): parse one complete frame; "none" if bytes are missing.
PacketDecoder_decode(d) ==
    LET l == VarIntDecode(d.buf)
    IN  IF l.st = "incomplete" THEN [st |-> "none"]
        ELSE IF l.st = "malformed" THEN [st |-> "err", err |-> "MalformedVarInt"]
        ELSE IF l.val > MAX_PACKET_SIZE THEN [st |-> "err", err |-> "PayloadTooLarge"]
        ELSE IF Len(d.buf) < (l.next - 1) + l.val THEN [st |-> "none"]
        ELSE LET frame == SubSeq(d.buf, l.next, l.next + l.val - 1)
                 rest == SubSeq(d.buf, l.next + l.val, Len(d.buf))
             IN  IF d.compression = << >> THEN DecodeData(frame, rest)
                 ELSE LET dl == VarIntDecode(frame)
                      IN  IF dl.st # "ok"
                          THEN [st |-> "err", err |-> "MalformedVarInt"]
                          ELSE IF dl.val = 0
                          THEN DecodeData(SubSeq(frame, dl.next, Len(frame)), rest)
                          ELSE Inflate(SubSeq(frame, dl.next, Len(frame)))

RECURSIVE DecodeAll(_)
\* Reference: every complete frame of a plain byte stream, in stream order
\* (decode() repeated until it yields no packet).
DecodeAll(bytes) ==
    LET r == PacketDecoder_decode([PacketDecoder_default EXCEPT !.buf = bytes])
    IN  IF r.st = "packet" THEN <<r.packet>> \o DecodeAll(r.rest) ELSE << >>

\* ------------------------------------------------------------- Client
\* Client::new: state HandShake, encryption off, closed false.
Client_new(id) ==
    [id |-> id,
     protocol_version |-> 0,
     gameprofile |-> << >>,
     config |-> << >>,
     brand |-> << >>,
     connection_state |-> HandShake,
     enc |-> PacketEncoder_default,
     dec |-> PacketDecoder_default,
     encryption |-> FALSE,
     closed |-> FALSE,
     client_packets_queue |-> << >>,
     make_player |-> FALSE,
     sent |-> << >>]

(***************************************************************************)
(* A sequential run of client code is a chain of transformers of a machine *)
(* value M:                                                                *)
(*   cl    the clients (token -> Client record, sent = the packets written *)
(*         to its socket),                                                 *)
(*   plan  the outcomes the environment gives the next encodings/writes    *)
(*         ("ok", "encode" = append_packet fails, "write" = write_all      *)
(*         fails); an exhausted plan means "ok",                           *)
(*   used  the number of failures consumed,                                *)
(*   ok    the Result of the last fallible call,                           *)
(*   stuck the running thread blocks forever in a lock() on a mutex it     *)
(*         holds itself (parking_lot mutexes are not reentrant).           *)
(***************************************************************************)
Machine(cl, plan) == [cl |-> cl, plan |-> plan, used |-> 0, ok |-> TRUE, stuck |-> FALSE]

NextOutcome(M) == IF M.plan = << >> THEN "ok" ELSE Head(M.plan)
Consume(M) ==
    IF M.plan = << >> THEN M
    ELSE [M EXCEPT !.plan = Tail(@),
                   !.used = @ + (IF Head(M.plan) = "ok" THEN 0 ELSE 1)]

\* What reaches the socket for packet p of client c.
Written(M, c, p) ==
    [name |-> p.name, arg |-> p.arg,
     encrypted |-> M.cl[c].enc.key # << >>,
     compressed |-> M.cl[c].enc.compression # << >>]

Packet(name, arg) == [name |-> name, arg |-> arg]

\* A close that flips the flag instead of setting it.
close_toggle(M, c) == [M EXCEPT !.cl[c].closed = ~@]

\* Client::close
close(M, c) == [M EXCEPT !.cl[c].closed = TRUE]

\* Client::try_send_packet; encHeld: the caller's thread holds the enc mutex.
try_send_packet(M, c, p, encHeld) ==
    IF encHeld THEN [M EXCEPT !.stuck = TRUE]
    ELSE LET o == NextOutcome(M)
             M1 == Consume(M)
         IN  IF o = "ok"
             THEN [M1 EXCEPT !.cl[c].sent = Append(@, Written(M, c, p)), !.ok = TRUE]
             ELSE [M1 EXCEPT !.ok = FALSE]

DisconnectPacket(state) ==
    CASE state = Login -> Packet("CLoginDisconnect", 0)
      [] state = Config -> Packet("CConfigDisconnect", 0)
      [] state = Play -> Packet("CPlayDisconnect", 0)

\* Client::kick
kick(M, c, encHeld) ==
    LET st == M.cl[c].connection_state
    IN  IF st \in {Login, Config, Play}
        THEN LET M1 == try_send_packet(M, c, DisconnectPacket(st), encHeld)
             IN  IF M1.stuck THEN M1
                 ELSE close(IF M1.ok THEN M1 ELSE close(M1, c), c)
        ELSE close(M, c)

\* Client::send_packet: the enc guard is held from the first line to the return.
send_packet(M, c, p) ==
    IF M.stuck THEN M
    ELSE LET o == NextOutcome(M)
             M1 == Consume(M)
         IN  CASE o = "ok" -> [M1 EXCEPT !.cl[c].sent = Append(@, Written(M, c, p))]
               [] o = "encode" -> kick(M1, c, TRUE)
               [] o = "write" -> kick(M1, c, TRUE)

\* Client::enable_encryption
enable_encryption(M, c, shared_secret) ==
    LET M1 == [M EXCEPT !.cl[c].encryption = TRUE]
    IN  IF Len(shared_secret) # 16 THEN [M1 EXCEPT !.ok = FALSE]
        ELSE [M1 EXCEPT !.cl[c].dec.key = <<shared_secret>>,
                        !.cl[c].enc.key = <<shared_secret>>,
                        !.ok = TRUE]

\* Client::set_compression
set_compression(M, c, compression) ==
    [M EXCEPT !.cl[c].dec.compression =
                  IF compression = << >> THEN << >> ELSE <<compression[1][1]>>,
              !.cl[c].enc.compression = compression]

\* Client::add_packet
add_packet(M, c, packet) == [M EXCEPT !.cl[c].client_packets_queue = Append(@, packet)]

\* ----------------------------------------------------------- handlers
\* The packet handlers of client_packet.rs, from the packet table: each takes
\* the deserialized packet.  Packet bodies are scaled to the fields that drive
\* the connection: Handshake = <<protocol_version, next_state>>,
\* PingRequest = <<payload>>, LoginStart = <<name>>, EncryptionResponse =
\* <<length of the decrypted shared secret>>, ClientInformation = <<skin_parts>>,
\* PluginMessage = <<brand>>, KnownPacks = <<count>>; the others have no fields.

\* next_state of a Handshake: 1 -> Status, 2 -> Login, 3 -> Transfer.
NextState(n) == CASE n = 1 -> Status [] n = 2 -> Login [] n = 3 -> Transfer

\* The shared secret the server's private key recovers from the response.
SharedSecret(n) == [i \in 1..n |-> 1]

handle_handshake(M, c, body) ==
    [M EXCEPT !.cl[c].protocol_version = body[1],
              !.cl[c].connection_state = NextState(body[2])]

handle_status_request(M, c) == send_packet(M, c, Packet("CStatusResponse", 0))

handle_ping_request(M, c, body) ==
    LET M1 == send_packet(M, c, Packet("CPingResponse", body[1]))
    IN  IF M1.stuck THEN M1 ELSE close(M1, c)

handle_login_start(M, c, body) == send_packet(M, c, Packet("CEncryptionRequest", 0))

\* auth: the answer of the authentication collaborator.
handle_encryption_response(M, c, body, auth) ==
    LET M1 == enable_encryption(M, c, SharedSecret(body[1]))
    IN  IF ~M1.ok THEN kick([M1 EXCEPT !.ok = TRUE], c, FALSE)
        ELSE IF ~auth THEN kick(M1, c, FALSE)
        ELSE LET M2 == [M1 EXCEPT !.cl[c].gameprofile = <<c>>]
                 M3 == send_packet(M2, c, Packet("CSetCompression", CompressionThreshold))
                 M4 == IF M3.stuck THEN M3
                       ELSE set_compression(M3, c, <<<<CompressionThreshold, 0>>>>)
             IN  send_packet(M4, c, Packet("CLoginSuccess", 0))

handle_plugin_response(M, c) == M

handle_login_acknowledged(M, c) == [M EXCEPT !.cl[c].connection_state = Config]

handle_client_information_config(M, c, body) == [M EXCEPT !.cl[c].config = <<body[1]>>]

handle_plugin_message(M, c, body) == [M EXCEPT !.cl[c].brand = <<body[1]>>]

handle_known_packs(M, c) == M

handle_config_acknowledged(M, c) ==
    [M EXCEPT !.cl[c].connection_state = Play, !.cl[c].make_player = TRUE]

\* The handler a packet id selects in a state, "none" if the state's table has
\* no entry for it.
Handler(state, id) ==
    CASE state = HandShake ->
           IF id = SHandShake_ID THEN "handshake" ELSE "none"
      [] state = Status ->
           IF id = SStatusRequest_ID THEN "status_request"
           ELSE IF id = SStatusPingRequest_ID THEN "ping_request" ELSE "none"
      [] state \in {Login, Transfer} ->
           IF id = SLoginStart_ID THEN "login_start"
           ELSE IF id = SEncryptionResponse_ID THEN "encryption_response"
           ELSE IF id = SLoginPluginResponse_ID THEN "plugin_response"
           ELSE IF id = SLoginAcknowledged_ID THEN "login_acknowledged" ELSE "none"
      [] state = Config ->
           IF id = SClientInformationConfig_ID THEN "client_information_config"
           ELSE IF id = SPluginMessage_ID THEN "plugin_message"
           ELSE IF id = SAcknowledgeFinishConfig_ID THEN "config_acknowledged"
           ELSE IF id = SKnownPacks_ID THEN "known_packs" ELSE "none"
      [] OTHER -> "none"

\* P::read(bytebuf): whether the body deserializes (DeserializerError if not).
ReadOk(h, body) ==
    CASE h = "handshake" -> Len(body) >= 2 /\ body[2] \in {1, 2, 3}
      [] h \in {"ping_request", "login_start", "encryption_response",
                "client_information_config", "plugin_message"} -> Len(body) >= 1
      [] OTHER -> TRUE

\* A handle_packet that dispatches LoginAcknowledged on its id alone, whatever
\* the state.
handle_packet_by_id(M, c, packet, auth) ==
    IF packet.id = SLoginAcknowledged_ID
    THEN handle_login_acknowledged([M EXCEPT !.ok = TRUE], c)
    ELSE [M EXCEPT !.ok = TRUE]

\* A handle_packet for which a packet id without an entry is an error.
handle_packet_unknown_fatal(M, c, packet, auth) ==
    [M EXCEPT !.ok = Handler(M.cl[c].connection_state, packet.id) # "none"]

\* Client::handle_packet; ok = FALSE is Err(DeserializerError).
handle_packet(M, c, packet, auth) ==
    LET h == Handler(M.cl[c].connection_state, packet.id)
        body == packet.bytebuf
        M0 == [M EXCEPT !.ok = TRUE]
    IN  IF h = "none" THEN M0
        ELSE IF ~ReadOk(h, body) THEN [M EXCEPT !.ok = FALSE]
        ELSE CASE h = "handshake" -> handle_handshake(M0, c, body)
               [] h = "status_request" -> handle_status_request(M0, c)
               [] h = "ping_request" -> handle_ping_request(M0, c, body)
               [] h = "login_start" -> handle_login_start(M0, c, body)
               [] h = "encryption_response" ->
                      [handle_encryption_response(M0, c, body, auth) EXCEPT !.ok = TRUE]
               [] h = "plugin_response" -> handle_plugin_response(M0, c)
               [] h = "login_acknowledged" -> handle_login_acknowledged(M0, c)
               [] h = "client_information_config" ->
                      handle_client_information_config(M0, c, body)
               [] h = "plugin_message" -> handle_plugin_message(M0, c, body)
               [] h = "known_packs" -> handle_known_packs(M0, c)
               [] h = "config_acknowledged" -> handle_config_acknowledged(M0, c)

\* Vec::pop: the last element.
VecPop(q) == [item |-> q[Len(q)], rest |-> SubSeq(q, 1, Len(q) - 1)]

\* An iteration of the loop that drops the handler's error.
process_packet_ignore_error(M, c, auth) ==
    LET p == VecPop(M.cl[c].client_packets_queue)
    IN  handle_packet([M EXCEPT !.cl[c].client_packets_queue = p.rest], c, p.item, auth)

\* One iteration of the loop of Client::process_packets.
process_packet(M, c, auth) ==
    LET p == VecPop(M.cl[c].client_packets_queue)
        M1 == [M EXCEPT !.cl[c].client_packets_queue = p.rest]
        M2 == handle_packet(M1, c, p.item, auth)
    IN  IF M2.stuck \/ M2.ok THEN M2 ELSE kick([M2 EXCEPT !.ok = TRUE], c, FALSE)

\* The Ok(n) arm of Client::poll: received_data is the scratch buffer whose
\* first n bytes the read has just filled.
poll_data(M, c, received_data, n) ==
    LET buffer == received_data \o [i \in 1..n |-> 0]
        dec == queue_slice(M.cl[c].dec, buffer)
        r == PacketDecoder_decode(dec)
        M1 == [M EXCEPT !.cl[c].dec = PacketDecoder_clear(dec)]
    IN  [buffer |-> buffer,
         fed |-> buffer,
         M |-> CASE r.st = "packet" -> add_packet(M1, c, r.packet)
                 [] r.st = "none" -> M1
                 [] r.st = "err" -> kick(M1, c, FALSE)]

\* ------------------------------------------------------------- world
RECURSIVE broadcast_to_all(_, _, _, _)
\* A broadcast that does not look at the exclusion list.
broadcast_to_all(M, order, except, p) ==
    IF order = << >> \/ M.stuck THEN M
    ELSE broadcast_to_all(send_packet(M, Head(order), p), Tail(order), except, p)

RECURSIVE broadcast(_, _, _, _)
\* The loop of World::broadcast_packet_all / broadcast_packet_expect over the
\* live players in iteration order `order`, skipping the tokens of `except`.
broadcast(M, order, except, p) ==
    IF order = << >> \/ M.stuck THEN M
    ELSE broadcast(IF Head(order) \in except THEN M ELSE send_packet(M, Head(order), p),
                   Tail(order), except, p)

RECURSIVE send_each(_, _, _, _)
\* The loop of spawn_player that sends the new player one SpawnEntity per
\* already joined player.
send_each(M, order, c, name) ==
    IF order = << >> \/ M.stuck THEN M
    ELSE send_each(IF Head(order) = c THEN M
                   ELSE send_packet(M, c, Packet(name, Head(order))),
                   Tail(order), c, name)

\* The entries of the PlayerInfoUpdate that lists the already joined players.
Entries(order, c) == SelectSeq(order, LAMBDA t : t # c)

\* A spawn_player that sends the SpawnEntity of the new player to everyone.
spawn_player_to_everyone(M, order, c) ==
    LET M1 == send_packet(M, c, Packet("CLogin", c))
        M2 == send_packet(M1, c, Packet("CPlayerAbilities", 0))
        M3 == broadcast(M2, order, {}, Packet("CPlayerInfoUpdate", <<c>>))
        M4 == send_packet(M3, c, Packet("CPlayerInfoUpdate", Entries(order, c)))
        M5 == broadcast(M4, order, {}, Packet("CSpawnEntity", c))
        M6 == send_each(M5, order, c, "CSpawnEntity")
        M7 == IF M6.stuck \/ M6.cl[c].config = << >> THEN M6
              ELSE broadcast(M6, order, {}, Packet("CSetEntityMetadata", M6.cl[c].config[1]))
    IN  send_packet(M7, c, Packet("CGameEvent", "StartWaitingChunks"))

\* World::spawn_player up to the start of chunk streaming.
spawn_player(M, order, c) ==
    LET M1 == send_packet(M, c, Packet("CLogin", c))
        M2 == send_packet(M1, c, Packet("CPlayerAbilities", 0))
        M3 == broadcast(M2, order, {}, Packet("CPlayerInfoUpdate", <<c>>))
        M4 == send_packet(M3, c, Packet("CPlayerInfoUpdate", Entries(order, c)))
        M5 == broadcast(M4, order, {c}, Packet("CSpawnEntity", c))
        M6 == send_each(M5, order, c, "CSpawnEntity")
        M7 == IF M6.stuck \/ M6.cl[c].config = << >> THEN M6
              ELSE broadcast(M6, order, {}, Packet("CSetEntityMetadata", M6.cl[c].config[1]))
    IN  send_packet(M7, c, Packet("CGameEvent", "StartWaitingChunks"))

\* The iteration orders a HashMap of the tokens S can have.
Orders(S) ==
    {o \in [1..Cardinality(S) -> S] : \A i, j \in 1..Cardinality(S) : o[i] = o[j] => i = j}

\* ------------------------------------------------------------- state
VARIABLES
    unique_token,     \* main: the token counter
    listener,         \* main: the accept loop, [pc, token]
    clients,          \* main: the tokens of the pending-client map
    clients_lock,     \* holder of the guard of `clients`: 0, "listener" or a token
    players,          \* main: the tokens of the `players` map
    current_players,  \* World: the tokens of the live-player map
    client,           \* token -> Client
    task,             \* token -> the connection task [pc, closed, make_player]
    received_data,    \* token -> the scratch buffer of the running poll
    net,              \* token -> what the next reads return (a sequence of byte chunks)
    faults,           \* failures injected so far
    rcvd,             \* token -> all bytes the reads have returned
    fed,              \* token -> all bytes given to the decoder
    enq,              \* token -> all packets add_packet has queued
    handled,          \* token -> all packets given to handle_packet
    last_read,        \* token -> outcome of the last read of poll
    thr,              \* thread -> a call of send_packet / try_send_packet / kick in steps
    enc_lock,         \* holder of the enc mutex of SendConn: 0 or a thread
    writer_lock,      \* holder of the connection writer mutex of SendConn: 0 or a thread
    socket,           \* the bytes written to the socket of SendConn
    fetch,            \* token -> the chunk producer of its stream: [pc, closed, todo]
    chunk_receiver    \* token -> the chunk channel of its stream: the results in flight

vars == <<unique_token, listener, clients, clients_lock, players, current_players,
          client, task, received_data, net, faults, rcvd, fed, enq, handled, last_read,
          thr, enc_lock, writer_lock, socket, fetch, chunk_receiver>>

chunkVars == <<fetch, chunk_receiver>>
sendVars == <<thr, enc_lock, writer_lock, socket, chunkVars>>

serverVars == <<unique_token, listener, clients, clients_lock, players, current_players>>
ghostVars == <<rcvd, fed, enq, handled, last_read>>

\* ------------------------------------------------------------ inputs
FHandshake(next) == Frame(SHandShake_ID, <<4, next>>)
FStatusRequest == Frame(SStatusRequest_ID, << >>)
FPingRequest == Frame(SStatusPingRequest_ID, <<9>>)
FLoginStart == Frame(SLoginStart_ID, <<5>>)
FEncryptionResponse(n) == Frame(SEncryptionResponse_ID, <<n>>)
FLoginAcknowledged == Frame(SLoginAcknowledged_ID, << >>)
FClientInformation == Frame(SClientInformationConfig_ID, <<6>>)
FBadClientInformation == Frame(SClientInformationConfig_ID, << >>)
FAcknowledgeFinishConfig == Frame(SAcknowledgeFinishConfig_ID, << >>)

\* What the clients of the model send, as the chunks successive reads return.
Scripts ==
    { \* status ping, one frame per read, in protocol order and in reverse
      <<FHandshake(1), FStatusRequest, FPingRequest>>,
      <<FPingRequest, FStatusRequest, FHandshake(1)>>,
      \* two frames in one read; one frame split over two reads
      <<FStatusRequest \o FPingRequest, FHandshake(1)>>,
      <<SubSeq(FPingRequest, 1, 2), SubSeq(FPingRequest, 3, 3), FHandshake(1)>>,
      \* login up to Play, in protocol order and in reverse
      <<FHandshake(2), FLoginStart, FEncryptionResponse(16), FLoginAcknowledged,
        FClientInformation, FAcknowledgeFinishConfig>>,
      <<FAcknowledgeFinishConfig, FClientInformation, FLoginAcknowledged,
        FEncryptionResponse(16), FLoginStart, FHandshake(2)>>,
      \* the same with a ClientInformation that does not deserialize
      <<FAcknowledgeFinishConfig, FBadClientInformation, FLoginAcknowledged,
        FEncryptionResponse(16), FLoginStart, FHandshake(2)>>,
      \* a login without ClientInformation
      <<FAcknowledgeFinishConfig, FLoginAcknowledged, FEncryptionResponse(16),
        FLoginStart, FHandshake(2)>>,
      \* a 15-byte shared secret (twice), after Login and after Transfer
      <<FEncryptionResponse(15), FEncryptionResponse(15), FLoginStart, FHandshake(2)>>,
      <<FEncryptionResponse(15), FHandshake(3)>> }

\* The outcomes of the level for the chunks of a joining player: every chunk
\* is delivered, or one of them is an error.
ChunkResults ==
    {[i \in 1..MaxChunks |-> IF i = k THEN "Err" ELSE "Ok"] : k \in 0..MaxChunks}

\* At most one failure per step, at its 1st..4th encoding/write.
Plans ==
    {<< >>} \cup
    (IF faults < MaxFaults
     THEN {pre \o <<f>> : pre \in {<< >>, <<"ok">>, <<"ok", "ok">>, <<"ok", "ok", "ok">>},
                          f \in {"encode", "write"}}
     ELSE {})

\* Number of threads that call into one connection at the same time.
MaxThreads == 2
Threads == 1..MaxThreads
\* The connection the threads share.
SendConn == CHOOSE c \in Tokens : \A d \in Tokens : c <= d

\* No chunk producer is running.
NoFetch == [pc |-> "none", closed |-> FALSE, todo |-> << >>]

IdleThread == [stack |-> << >>, op |-> "none", last |-> "none", failed |-> FALSE]

\* ------------------------------------------------------------- Init
NoTask == [pc |-> "none", closed |-> FALSE, make_player |-> FALSE]

Init ==
    /\ unique_token = 0
    /\ listener = [pc |-> "accept", token |-> 0]
    /\ clients = {}
    /\ clients_lock = 0
    /\ players = {}
    /\ current_players = {}
    /\ client = [c \in Tokens |-> Client_new(c)]
    /\ task = [c \in Tokens |-> NoTask]
    /\ received_data = [c \in Tokens |-> << >>]
    /\ net = [c \in Tokens |-> << >>]
    /\ faults = 0
    /\ rcvd = [c \in Tokens |-> << >>]
    /\ fed = [c \in Tokens |-> << >>]
    /\ enq = [c \in Tokens |-> << >>]
    /\ handled = [c \in Tokens |-> << >>]
    /\ last_read = [c \in Tokens |-> "none"]
    /\ thr = [t \in Threads |-> IdleThread]
    /\ enc_lock = 0
    /\ writer_lock = 0
    /\ socket = << >>
    /\ fetch = [c \in Tokens |-> NoFetch]
    /\ chunk_receiver = [c \in Tokens |-> << >>]

\* --------------------------------------------------------- accept loop
\* An accept whose counter stops at its first value.
AcceptSameToken(limit, scripts) ==
    /\ listener.pc = "accept"
    /\ unique_token < limit
    /\ unique_token' = 1
    /\ listener' = [pc |-> "lock", token |-> 1]
    /\ \E script \in scripts : net' = [net EXCEPT ![1] = script]
    /\ UNCHANGED <<sendVars, clients, clients_lock, players, current_players, client, task,
                   received_data, faults, ghostVars>>

\* listener.accept(), unique_token += 1, Client::new; the peer is one of
\* `scripts`, and the listener accepts `limit` sockets.
AcceptSocket(limit, scripts) ==
    /\ listener.pc = "accept"
    /\ unique_token < limit
    /\ unique_token' = unique_token + 1
    /\ listener' = [pc |-> "lock", token |-> unique_token + 1]
    /\ \E script \in scripts : net' = [net EXCEPT ![unique_token + 1] = script]
    /\ UNCHANGED <<sendVars, clients, clients_lock, players, current_players, client, task,
                   received_data, faults, ghostVars>>

Accept == AcceptSocket(MaxClients, Scripts)

\* clients.lock(), clients.insert(token, client), tokio::spawn: the guard is
\* moved into the task and lives until the task ends.
Register ==
    /\ listener.pc = "lock"
    /\ clients_lock = 0
    /\ clients_lock' = listener.token
    /\ clients' = clients \cup {listener.token}
    /\ task' = [task EXCEPT ![listener.token].pc = "start"]
    /\ listener' = [pc |-> "accept", token |-> 0]
    /\ UNCHANGED <<sendVars, unique_token, players, current_players, client, received_data, net,
                   faults, ghostVars>>

\* ------------------------------------------------------ connection task
\* "Poll Players": players.lock().get_mut(&token).
TaskStart(c) ==
    /\ task[c].pc = "start"
    /\ task' = [task EXCEPT ![c].pc = IF c \in players THEN "player_poll"
                                      ELSE IF c \in clients THEN "poll" ELSE "decide"]
    /\ received_data' = [received_data EXCEPT ![c] = [i \in 1..ScratchLen |-> 0]]
    /\ UNCHANGED <<sendVars, serverVars, client, net, faults, ghostVars>>

\* poll: the loop condition fails.
PollExit(c) ==
    /\ task[c].pc = "poll"
    /\ client[c].closed
    /\ task' = [task EXCEPT ![c].pc = "polled"]
    /\ received_data' = [received_data EXCEPT ![c] = << >>]
    /\ UNCHANGED <<sendVars, serverVars, client, net, faults, ghostVars>>

\* poll: read returns Ok(0).
PollReadZero(c) ==
    /\ task[c].pc = "poll"
    /\ ~client[c].closed
    /\ client' = close(Machine(client, << >>), c).cl
    /\ task' = [task EXCEPT ![c].pc = "polled"]
    /\ received_data' = [received_data EXCEPT ![c] = << >>]
    /\ last_read' = [last_read EXCEPT ![c] = "zero"]
    /\ UNCHANGED <<sendVars, serverVars, net, faults, rcvd, fed, enq, handled>>

\* poll: read returns Ok(n), n > 0: the next chunk, as far as the buffer holds it.
PollReadData(c) ==
    /\ task[c].pc = "poll"
    /\ ~client[c].closed
    /\ net[c] # << >>
    /\ \E plan \in Plans :
         LET chunk == Head(net[c])
             n == IF Len(chunk) <= Len(received_data[c]) THEN Len(chunk)
                  ELSE Len(received_data[c])
             bytes == SubSeq(chunk, 1, n)
             filled == bytes \o SubSeq(received_data[c], n + 1, Len(received_data[c]))
             r == poll_data(Machine(client, plan), c, filled, n)
         IN  /\ net' = [net EXCEPT ![c] = IF n = Len(chunk) THEN Tail(@)
                                          ELSE <<SubSeq(chunk, n + 1, Len(chunk))>> \o Tail(@)]
             /\ received_data' = [received_data EXCEPT ![c] = r.buffer]
             /\ client' = r.M.cl
             /\ faults' = faults + r.M.used
             /\ rcvd' = [rcvd EXCEPT ![c] = @ \o bytes]
             /\ fed' = [fed EXCEPT ![c] = @ \o r.fed]
             /\ enq' = [enq EXCEPT ![c] =
                          @ \o SubSeq(r.M.cl[c].client_packets_queue,
                                      Len(client[c].client_packets_queue) + 1,
                                      Len(r.M.cl[c].client_packets_queue))]
    /\ last_read' = [last_read EXCEPT ![c] = "data"]
    /\ UNCHANGED <<sendVars, serverVars, task, handled>>

\* poll: read returns Err(WouldBlock): break.
PollWouldBlock(c) ==
    /\ task[c].pc = "poll"
    /\ ~client[c].closed
    /\ task' = [task EXCEPT ![c].pc = "polled"]
    /\ received_data' = [received_data EXCEPT ![c] = << >>]
    /\ last_read' = [last_read EXCEPT ![c] = "would_block"]
    /\ UNCHANGED <<sendVars, serverVars, client, net, faults, rcvd, fed, enq, handled>>

\* poll: read returns Err(Interrupted): continue.  (Two interrupted reads in
\* a row leave the same state as one.)
PollInterrupted(c) ==
    /\ task[c].pc = "poll"
    /\ ~client[c].closed
    /\ last_read[c] # "interrupted"
    /\ last_read' = [last_read EXCEPT ![c] = "interrupted"]
    /\ UNCHANGED <<sendVars, serverVars, client, task, received_data, net, faults,
                   rcvd, fed, enq, handled>>

\* A poll that goes on reading after an error that is neither WouldBlock nor
\* Interrupted.
PollReadErrorIgnored(c) ==
    /\ task[c].pc = "poll"
    /\ ~client[c].closed
    /\ last_read[c] # "error"
    /\ last_read' = [last_read EXCEPT ![c] = "error"]
    /\ UNCHANGED <<sendVars, serverVars, client, task, received_data, net, faults,
                   rcvd, fed, enq, handled>>

\* poll: read returns any other error: close, and the loop goes on.
PollReadError(c) ==
    /\ task[c].pc = "poll"
    /\ ~client[c].closed
    /\ client' = close(Machine(client, << >>), c).cl
    /\ last_read' = [last_read EXCEPT ![c] = "error"]
    /\ UNCHANGED <<sendVars, serverVars, task, received_data, net, faults, rcvd, fed, enq, handled>>

\* let closed = client.closed.load(); if !closed { process_packets }
TaskCheckClosed(c) ==
    /\ task[c].pc = "polled"
    /\ task' = [task EXCEPT ![c].closed = client[c].closed,
                            ![c].pc = IF client[c].closed THEN "load" ELSE "process"]
    /\ UNCHANGED <<sendVars, serverVars, client, received_data, net, faults, ghostVars>>

\* process_packets: one turn of the loop, the queue is not empty.
ProcessPacket(c) ==
    /\ task[c].pc = "process"
    /\ client[c].client_packets_queue # << >>
    /\ \E plan \in Plans, auth \in BOOLEAN :
         LET M == process_packet(Machine(client, plan), c, auth)
         IN  /\ client' = M.cl
             /\ faults' = faults + M.used
             /\ task' = [task EXCEPT ![c].pc = IF M.stuck THEN "blocked" ELSE "process"]
    /\ handled' = [handled EXCEPT ![c] = Append(@, VecPop(client[c].client_packets_queue).item)]
    /\ UNCHANGED <<sendVars, serverVars, received_data, net, rcvd, fed, enq, last_read>>

\* process_packets: the queue is empty, the loop ends.
ProcessDone(c) ==
    /\ task[c].pc = "process"
    /\ client[c].client_packets_queue = << >>
    /\ task' = [task EXCEPT ![c].pc = "load"]
    /\ UNCHANGED <<sendVars, serverVars, client, received_data, net, faults, ghostVars>>

\* (closed, client.make_player.load())
TaskLoadMakePlayer(c) ==
    /\ task[c].pc = "load"
    /\ task' = [task EXCEPT ![c].make_player = client[c].make_player, ![c].pc = "decide"]
    /\ UNCHANGED <<sendVars, serverVars, client, received_data, net, faults, ghostVars>>

\* if done || make_player { clients.remove(&token) ... }
TaskDecide(c) ==
    /\ task[c].pc = "decide"
    /\ IF task[c].closed \/ task[c].make_player
       THEN /\ clients' = clients \ {c}
            /\ task' = [task EXCEPT ![c].pc = IF c \notin clients \/ task[c].closed
                                              THEN "exit" ELSE "add_player"]
       ELSE /\ clients' = clients
            /\ task' = [task EXCEPT ![c].pc = "exit"]
    /\ UNCHANGED <<sendVars, unique_token, listener, clients_lock, players, current_players,
                   client, received_data, net, faults, ghostVars>>

\* server.add_player(token, client).await: the Player is made and
\* World::add_player inserts it into the live-player map.
TaskAddPlayer(c) ==
    /\ task[c].pc = "add_player"
    /\ current_players' = current_players \cup {c}
    /\ task' = [task EXCEPT ![c].pc = "insert"]
    /\ UNCHANGED <<sendVars, unique_token, listener, clients, clients_lock, players,
                   client, received_data, net, faults, ghostVars>>

\* players.lock().insert(token, player)
TaskInsertPlayer(c) ==
    /\ task[c].pc = "insert"
    /\ players' = players \cup {c}
    /\ task' = [task EXCEPT ![c].pc = "spawn"]
    /\ UNCHANGED <<sendVars, unique_token, listener, clients, clients_lock, current_players,
                   client, received_data, net, faults, ghostVars>>

\* world.spawn_player(&BASIC_CONFIG, player).await, up to player_join, which
\* streams the chunks around the spawn point.
TaskSpawnPlayer(c) ==
    /\ task[c].pc = "spawn"
    /\ \E plan \in Plans, order \in Orders(current_players) :
         LET M == spawn_player(Machine(client, plan), order, c)
         IN  /\ client' = M.cl
             /\ faults' = faults + M.used
             /\ task' = [task EXCEPT ![c].pc = IF M.stuck THEN "blocked" ELSE "chunks"]
    /\ UNCHANGED <<sendVars, serverVars, received_data, net, ghostVars>>

\* ------------------------------------------------------ chunk streaming
chunkFrame == <<serverVars, received_data, net, ghostVars, thr, enc_lock, writer_lock, socket>>

\* spawn_world_chunks: mpsc::channel(distance), closed = client.closed.load(),
\* spawn_blocking(fetch_chunks(&chunks, sender, closed)); the level will
\* answer with one of `outcomes`.
StartChunks(c, outcomes) ==
    /\ task[c].pc = "chunks"
    /\ \E results \in outcomes :
         fetch' = [fetch EXCEPT ![c] = [pc |-> "running", closed |-> client[c].closed,
                                        todo |-> results]]
    /\ chunk_receiver' = [chunk_receiver EXCEPT ![c] = << >>]
    /\ task' = [task EXCEPT ![c].pc = "recv"]
    /\ UNCHANGED <<chunkFrame, client, faults>>

\* In the connection task the level delivers every chunk.
ChunksStart(c) == StartChunks(c, {[i \in 1..MaxChunks |-> "Ok"]})

\* Level::fetch_chunks, one turn: the producer stops when the closed value it
\* was given is true or the list is done (the sender is dropped), else it
\* pushes the next result, waiting while the channel is full.
FetchChunk(c) ==
    /\ fetch[c].pc = "running"
    /\ IF fetch[c].closed \/ fetch[c].todo = << >>
       THEN /\ fetch' = [fetch EXCEPT ![c].pc = "done"]
            /\ UNCHANGED chunk_receiver
       ELSE /\ Len(chunk_receiver[c]) < ViewDistance
            /\ chunk_receiver' = [chunk_receiver EXCEPT ![c] = Append(@, Head(fetch[c].todo))]
            /\ fetch' = [fetch EXCEPT ![c].todo = Tail(@)]
    /\ UNCHANGED <<chunkFrame, client, task, faults>>

\* while let Some(chunk_data) = chunk_receiver.recv().await: an error is
\* skipped, a chunk is sent if the connection is not closed.
ChunkRecv(c) ==
    /\ task[c].pc = "recv"
    /\ chunk_receiver[c] # << >>
    /\ chunk_receiver' = [chunk_receiver EXCEPT ![c] = Tail(@)]
    /\ IF Head(chunk_receiver[c]) = "Ok" /\ ~client[c].closed
       THEN \E plan \in Plans :
               LET M == send_packet(Machine(client, plan), c,
                                    Packet("CChunkData",
                                           MaxChunks - Len(fetch[c].todo)
                                           - Len(chunk_receiver[c]) + 1))
               IN  /\ client' = M.cl
                   /\ faults' = faults + M.used
                   /\ task' = [task EXCEPT ![c].pc = IF M.stuck THEN "blocked" ELSE "recv"]
       ELSE UNCHANGED <<client, faults, task>>
    /\ UNCHANGED <<chunkFrame, fetch>>

\* recv() returns None: the channel is empty and the sender is dropped;
\* spawn_world_chunks, player_join and spawn_player return.
ChunksDone(c) ==
    /\ task[c].pc = "recv"
    /\ chunk_receiver[c] = << >>
    /\ fetch[c].pc = "done"
    /\ task' = [task EXCEPT ![c].pc = "exit"]
    /\ UNCHANGED <<chunkFrame, client, faults, chunkVars>>

\* Another holder of the connection calls Client::close while the chunks
\* are streamed.
CloseWhileStreaming(c) ==
    /\ task[c].pc = "recv"
    /\ ~client[c].closed
    /\ client' = close(Machine(client, << >>), c).cl
    /\ UNCHANGED <<chunkFrame, task, faults, chunkVars>>

\* The task ends; the guard of `clients` it owns is dropped.
TaskEnd(c) ==
    /\ task[c].pc = "exit"
    /\ task' = [task EXCEPT ![c].pc = "ended"]
    /\ clients_lock' = IF clients_lock = c THEN 0 ELSE clients_lock
    /\ UNCHANGED <<sendVars, unique_token, listener, clients, players, current_players,
                   client, received_data, net, faults, ghostVars>>

Poll(c) ==
    \/ PollExit(c)
    \/ PollReadZero(c)
    \/ PollReadData(c)
    \/ PollWouldBlock(c)
    \/ PollInterrupted(c)
    \/ PollReadError(c)

Next ==
    \/ Accept
    \/ Register
    \/ \E c \in Tokens :
         \/ TaskStart(c)
         \/ Poll(c)
         \/ TaskCheckClosed(c)
         \/ ProcessPacket(c)
         \/ ProcessDone(c)
         \/ TaskLoadMakePlayer(c)
         \/ TaskDecide(c)
         \/ TaskAddPlayer(c)
         \/ TaskInsertPlayer(c)
         \/ TaskSpawnPlayer(c)
         \/ ChunksStart(c)
         \/ FetchChunk(c)
         \/ ChunkRecv(c)
         \/ ChunksDone(c)
         \/ TaskEnd(c)

Spec == Init /\ [][Next]_vars

\* The steps of the connection task of token c, and of the chunk producer
\* it has started.
TaskStep(c) ==
    \/ TaskStart(c)
    \/ Poll(c)
    \/ TaskCheckClosed(c)
    \/ ProcessPacket(c)
    \/ ProcessDone(c)
    \/ TaskLoadMakePlayer(c)
    \/ TaskDecide(c)
    \/ TaskAddPlayer(c)
    \/ TaskInsertPlayer(c)
    \/ TaskSpawnPlayer(c)
    \/ ChunksStart(c)
    \/ FetchChunk(c)
    \/ ChunkRecv(c)
    \/ ChunksDone(c)
    \/ TaskEnd(c)

\* The runtime runs every spawned task that can take a step, and the accept
\* loop gets the lock of `clients` when it is free; nothing is assumed of
\* the peers.
SpecFair ==
    /\ Init
    /\ [][Next]_vars
    /\ WF_vars(Register)
    /\ \A c \in Tokens : WF_vars(TaskStep(c))

\* ------------------------------------------- the accept loop, many sockets
\* The peers of the specification of the accept loop: one that logs in up to
\* Play (its frames arrive in the order that process_packets handles as
\* Handshake .. AcknowledgeFinishConfig), and one that sends nothing.
JoinScripts ==
    { <<FAcknowledgeFinishConfig, FClientInformation, FLoginAcknowledged,
        FEncryptionResponse(16), FLoginStart, FHandshake(2)>>,
      << >> }

AcceptMany == AcceptSocket(MaxSockets, JoinScripts)

NextAccept ==
    \/ AcceptMany
    \/ Register
    \/ \E c \in Tokens : TaskStep(c)

SpecAccept == Init /\ [][NextAccept]_vars

\* ------------------------------------------------- poll on any stream
\* The bytes of the streams of SpecPoll.
WireBytes == {0, 1, 2}
RECURSIVE WiresOfLen(_)
WiresOfLen(n) ==
    IF n = 0 THEN {<< >>}
    ELSE {<<b>> \o w : b \in WireBytes, w \in WiresOfLen(n - 1)}
Wires == UNION {WiresOfLen(n) : n \in 1..MaxWire}

\* A connection about to be polled for the first time, in HandShake or Login,
\* whose peer has sent any byte stream of Wires.
InitPoll ==
    /\ unique_token = SendConn
    /\ listener = [pc |-> "accept", token |-> 0]
    /\ clients = {SendConn}
    /\ clients_lock = SendConn
    /\ players = {}
    /\ current_players = {}
    /\ \E st \in {HandShake, Login} :
         client = [c \in Tokens |-> IF c = SendConn
                                    THEN [Client_new(c) EXCEPT !.connection_state = st]
                                    ELSE Client_new(c)]
    /\ task = [c \in Tokens |-> IF c = SendConn THEN [NoTask EXCEPT !.pc = "poll"] ELSE NoTask]
    /\ received_data = [c \in Tokens |-> IF c = SendConn THEN [i \in 1..ScratchLen |-> 0]
                                         ELSE << >>]
    /\ \E w \in Wires : net = [c \in Tokens |-> IF c = SendConn THEN <<w>> ELSE << >>]
    /\ faults = 0
    /\ rcvd = [c \in Tokens |-> << >>]
    /\ fed = [c \in Tokens |-> << >>]
    /\ enq = [c \in Tokens |-> << >>]
    /\ handled = [c \in Tokens |-> << >>]
    /\ last_read = [c \in Tokens |-> "none"]
    /\ thr = [t \in Threads |-> IdleThread]
    /\ enc_lock = 0
    /\ writer_lock = 0
    /\ socket = << >>
    /\ fetch = [c \in Tokens |-> NoFetch]
    /\ chunk_receiver = [c \in Tokens |-> << >>]

\* The network delivers the bytes in flight in two segments instead of one.
Segment(c) ==
    /\ task[c].pc = "poll"
    /\ net[c] # << >>
    /\ \E k \in 1..(Len(Head(net[c])) - 1) :
         net' = [net EXCEPT ![c] = <<SubSeq(Head(@), 1, k),
                                      SubSeq(Head(@), k + 1, Len(Head(@)))>> \o Tail(@)]
    /\ UNCHANGED <<sendVars, serverVars, client, task, received_data, faults, ghostVars>>

NextPoll == \E c \in Tokens : Poll(c) \/ Segment(c)

SpecPoll == InitPoll /\ [][NextPoll]_vars

\* ------------------------------------- send_packet & co., step by step
\* PACKET_ID of the clientbound disconnect packets (pumpkin_protocol).
CLoginDisconnect_ID == 0
CConfigDisconnect_ID == 2
CPlayDisconnect_ID == 29

\* zlib deflate, abstracted to a stored block.
Deflate(data) == data

\* PacketEncoder::append_packet: the bytes appended for packet (id, payload),
\* compression applied first, then encryption.
PacketEncoder_append_packet(e, id, payload) ==
    LET data == VarIntEncode(id) \o payload
        framed == IF e.compression = << >>
                  THEN VarIntEncode(Len(data)) \o data
                  ELSE IF Len(data) >= e.compression[1][1]
                  THEN LET z == Deflate(data)
                           dl == VarIntEncode(Len(data))
                       IN  VarIntEncode(Len(dl) + Len(z)) \o dl \o z
                  ELSE VarIntEncode(Len(data) + 1) \o <<0>> \o data
    IN  Encrypt(e.key, framed)

\* The packet thread t sends, and the disconnect packet of a state.
OwnPacket(t) == [tag |-> <<t, "own">>, id |-> t, payload |-> <<t>>]
Disconnect(t, state) ==
    [tag |-> <<t, "disconnect">>,
     id |-> CASE state = Login -> CLoginDisconnect_ID
              [] state = Config -> CConfigDisconnect_ID
              [] state = Play -> CPlayDisconnect_ID,
     payload |-> << >>]

\* The encoding of a packet; each byte carries, as history, the packet it
\* belongs to and its position in the encoding.
Encoding(e, pkt) ==
    LET bytes == PacketEncoder_append_packet(e, pkt.id, pkt.payload)
    IN  [i \in 1..Len(bytes) |-> [byte |-> bytes[i], pkt |-> pkt.tag, i |-> i]]

Bytes(tagged) == [i \in 1..Len(tagged) |-> tagged[i].byte]

Top(t) == thr[t].stack[Len(thr[t].stack)]
Below(t) == SubSeq(thr[t].stack, 1, Len(thr[t].stack) - 1)
NewFrame(fn, pkt) ==
    [fn |-> fn, pc |-> IF fn = "kick" THEN "match" ELSE "lock_enc",
     pkt |-> pkt, held |-> << >>, holds |-> {}]

\* The top frame moves to pc.
Goto(t, pc) == [thr EXCEPT ![t].stack[Len(thr[t].stack)].pc = pc]
\* The top frame moves to pc and calls kick.
CallKick(t, pc) ==
    [thr EXCEPT ![t].stack = Below(t) \o <<[Top(t) EXCEPT !.pc = pc],
                                            NewFrame("kick", OwnPacket(t))>>,
                ![t].failed = TRUE]
\* The top frame returns res; its guards are dropped.
Return(t, res) == [thr EXCEPT ![t].stack = Below(t), ![t].last = res]
Released(lock, t, name) == IF lock = t /\ name \in Top(t).holds THEN 0 ELSE lock

InitSend ==
    /\ unique_token = SendConn
    /\ listener = [pc |-> "accept", token |-> 0]
    /\ clients = {SendConn}
    /\ clients_lock = 0
    /\ players = {}
    /\ current_players = {}
    /\ \E st \in ConnectionState :
         client = [c \in Tokens |-> IF c = SendConn
                                    THEN [Client_new(c) EXCEPT !.connection_state = st]
                                    ELSE Client_new(c)]
    /\ task = [c \in Tokens |-> NoTask]
    /\ received_data = [c \in Tokens |-> << >>]
    /\ net = [c \in Tokens |-> << >>]
    /\ faults = 0
    /\ rcvd = [c \in Tokens |-> << >>]
    /\ fed = [c \in Tokens |-> << >>]
    /\ enq = [c \in Tokens |-> << >>]
    /\ handled = [c \in Tokens |-> << >>]
    /\ last_read = [c \in Tokens |-> "none"]
    /\ thr = [t \in Threads |-> IdleThread]
    /\ enc_lock = 0
    /\ writer_lock = 0
    /\ socket = << >>
    /\ fetch = [c \in Tokens |-> NoFetch]
    /\ chunk_receiver = [c \in Tokens |-> << >>]

sendFrame == <<unique_token, listener, clients, clients_lock, players, current_players,
               task, received_data, net, rcvd, fed, enq, handled, last_read, chunkVars>>

\* A thread calls send_packet, try_send_packet or kick on the connection.
SendCall(t) ==
    /\ thr[t].op = "none"
    /\ \E op \in {"send_packet", "try_send_packet", "kick"} :
         thr' = [thr EXCEPT ![t].op = op, ![t].stack = <<NewFrame(op, OwnPacket(t))>>]
    /\ UNCHANGED <<sendFrame, client, faults, enc_lock, writer_lock, socket>>

\* A send that goes on without taking the enc mutex.
SendNoLockEnc(t) ==
    /\ thr[t].stack # << >>
    /\ Top(t).pc = "lock_enc"
    /\ thr' = Goto(t, "append")
    /\ UNCHANGED <<sendFrame, client, faults, enc_lock, writer_lock, socket>>

\* let mut enc = self.enc.lock();
SendLockEnc(t) ==
    /\ thr[t].stack # << >>
    /\ Top(t).pc = "lock_enc"
    /\ enc_lock = 0
    /\ enc_lock' = t
    /\ thr' = [thr EXCEPT ![t].stack[Len(thr[t].stack)].pc = "append",
                          ![t].stack[Len(thr[t].stack)].holds = @ \cup {"enc"}]
    /\ UNCHANGED <<sendFrame, client, faults, writer_lock, socket>>

\* enc.append_packet(packet): Ok, or Err (then send_packet kicks and goes on
\* to the write, try_send_packet returns the error).
SendAppend(t) ==
    /\ thr[t].stack # << >>
    /\ Top(t).pc = "append"
    /\ \/ /\ client' = [client EXCEPT ![SendConn].enc.buf =
                           @ \o Encoding(client[SendConn].enc, Top(t).pkt)]
          /\ thr' = Goto(t, "lock_writer")
          /\ UNCHANGED <<faults, enc_lock>>
       \/ /\ faults < MaxFaults
          /\ faults' = faults + 1
          /\ IF Top(t).fn = "send_packet"
             THEN /\ thr' = CallKick(t, "lock_writer")
                  /\ UNCHANGED enc_lock
             ELSE /\ thr' = [Return(t, "Err") EXCEPT ![t].failed = TRUE]
                  /\ enc_lock' = Released(enc_lock, t, "enc")
          /\ UNCHANGED client
    /\ UNCHANGED <<sendFrame, writer_lock, socket>>

\* self.connection.lock() and enc.take()
SendLockWriter(t) ==
    /\ thr[t].stack # << >>
    /\ Top(t).pc = "lock_writer"
    /\ writer_lock = 0
    /\ writer_lock' = t
    /\ thr' = [thr EXCEPT ![t].stack[Len(thr[t].stack)].pc = "write",
                          ![t].stack[Len(thr[t].stack)].holds = @ \cup {"writer"},
                          ![t].stack[Len(thr[t].stack)].held = client[SendConn].enc.buf]
    /\ client' = [client EXCEPT ![SendConn].enc.buf = << >>]
    /\ UNCHANGED <<sendFrame, faults, enc_lock, socket>>

\* write_all: the next byte goes out, or the write fails.
SendWrite(t) ==
    /\ thr[t].stack # << >>
    /\ Top(t).pc = "write"
    /\ Top(t).held # << >>
    /\ \/ /\ socket' = Append(socket, [byte |-> Head(Top(t).held).byte,
                                        pkt |-> Head(Top(t).held).pkt,
                                        i |-> Head(Top(t).held).i,
                                        by |-> t])
          /\ thr' = [thr EXCEPT ![t].stack[Len(thr[t].stack)].held = Tail(@)]
          /\ UNCHANGED <<faults, enc_lock, writer_lock>>
       \/ /\ faults < MaxFaults
          /\ faults' = faults + 1
          /\ IF Top(t).fn = "send_packet"
             THEN /\ thr' = CallKick(t, "unlock")
                  /\ UNCHANGED <<enc_lock, writer_lock>>
             ELSE /\ thr' = [Return(t, "Err") EXCEPT ![t].failed = TRUE]
                  /\ enc_lock' = Released(enc_lock, t, "enc")
                  /\ writer_lock' = Released(writer_lock, t, "writer")
          /\ UNCHANGED socket
    /\ UNCHANGED <<sendFrame, client>>

\* write_all is done and the call returns Ok, or send_packet returns after
\* the kick of a failed write: the guards are dropped.
SendReturn(t) ==
    /\ thr[t].stack # << >>
    /\ \/ Top(t).pc = "write" /\ Top(t).held = << >>
       \/ Top(t).pc = "unlock"
    /\ thr' = Return(t, "Ok")
    /\ enc_lock' = Released(enc_lock, t, "enc")
    /\ writer_lock' = Released(writer_lock, t, "writer")
    /\ UNCHANGED <<sendFrame, client, faults, socket>>

\* kick: match self.connection_state.load()
KickMatch(t) ==
    /\ thr[t].stack # << >>
    /\ Top(t).fn = "kick"
    /\ Top(t).pc = "match"
    /\ LET st == client[SendConn].connection_state
       IN  thr' = IF st \in {Login, Config, Play}
                  THEN [thr EXCEPT ![t].stack =
                           Below(t) \o <<[Top(t) EXCEPT !.pc = "after_try"],
                                         NewFrame("try_send_packet", Disconnect(t, st))>>]
                  ELSE Goto(t, "close")
    /\ UNCHANGED <<sendFrame, client, faults, enc_lock, writer_lock, socket>>

\* kick: .unwrap_or_else(|_| self.close())
KickAfterTry(t) ==
    /\ thr[t].stack # << >>
    /\ Top(t).pc = "after_try"
    /\ client' = IF thr[t].last = "Err" THEN close(Machine(client, << >>), SendConn).cl
                 ELSE client
    /\ thr' = Goto(t, "close")
    /\ UNCHANGED <<sendFrame, faults, enc_lock, writer_lock, socket>>

\* A kick that returns without the final close.
KickNoClose(t) ==
    /\ thr[t].stack # << >>
    /\ Top(t).pc = "close"
    /\ thr' = Return(t, "Ok")
    /\ UNCHANGED <<sendFrame, client, faults, enc_lock, writer_lock, socket>>

\* kick: self.close(), and return
KickClose(t) ==
    /\ thr[t].stack # << >>
    /\ Top(t).pc = "close"
    /\ client' = close(Machine(client, << >>), SendConn).cl
    /\ thr' = Return(t, "Ok")
    /\ UNCHANGED <<sendFrame, faults, enc_lock, writer_lock, socket>>

NextSend ==
    \E t \in Threads :
        \/ SendCall(t)
        \/ SendLockEnc(t)
        \/ SendAppend(t)
        \/ SendLockWriter(t)
        \/ SendWrite(t)
        \/ SendReturn(t)
        \/ KickMatch(t)
        \/ KickAfterTry(t)
        \/ KickClose(t)

SpecSend == InitSend /\ [][NextSend]_vars

\* ------------------------------------------------- broadcasts alone
\* Some of the tokens are live players, in Play, to whom nothing was sent yet.
InitBroadcast ==
    /\ unique_token = MaxTokens
    /\ listener = [pc |-> "accept", token |-> 0]
    /\ clients = {}
    /\ clients_lock = 0
    /\ \E S \in SUBSET Tokens : players = S /\ current_players = S
    /\ client = [c \in Tokens |-> [Client_new(c) EXCEPT !.connection_state = Play]]
    /\ task = [c \in Tokens |-> NoTask]
    /\ received_data = [c \in Tokens |-> << >>]
    /\ net = [c \in Tokens |-> << >>]
    /\ faults = 0
    /\ rcvd = [c \in Tokens |-> << >>]
    /\ fed = [c \in Tokens |-> << >>]
    /\ enq = [c \in Tokens |-> << >>]
    /\ handled = [c \in Tokens |-> << >>]
    /\ last_read = [c \in Tokens |-> "none"]
    /\ thr = [t \in Threads |-> IdleThread]
    /\ enc_lock = 0
    /\ writer_lock = 0
    /\ socket = << >>
    /\ fetch = [c \in Tokens |-> NoFetch]
    /\ chunk_receiver = [c \in Tokens |-> << >>]

\* Thread t runs a broadcast of its packet with exclusion list `except`, to
\* the end or until a send blocks; a thread blocked in a broadcast keeps the
\* guard of current_players, so no other broadcast starts.
Broadcast(t, op, except) ==
    /\ thr[t].op = "none"
    /\ \A u \in Threads : thr[u].last # "blocked"
    /\ \E plan \in Plans, order \in Orders(current_players) :
         LET M == broadcast(Machine(client, plan), order, except, Packet("P", t))
         IN  /\ client' = M.cl
             /\ faults' = faults + M.used
             /\ thr' = [thr EXCEPT ![t] = [stack |-> << >>, op |-> op, except |-> except,
                                           last |-> IF M.stuck THEN "blocked" ELSE "Ok",
                                           failed |-> M.used > 0]]
    /\ UNCHANGED <<sendFrame, enc_lock, writer_lock, socket>>

\* World::broadcast_packet_all
BroadcastAll(t) == Broadcast(t, "broadcast_packet_all", {})

\* World::broadcast_packet_expect
BroadcastExpect(t) == \E except \in SUBSET Tokens : Broadcast(t, "broadcast_packet_expect", except)

\* One broadcast to all and one broadcast with an exclusion list, by two
\* threads, in either order.
NextBroadcast == BroadcastAll(1) \/ BroadcastExpect(2)

SpecBroadcast == InitBroadcast /\ [][NextBroadcast]_vars

\* ------------------------------------ broadcasts and the live-player map
BroadcastOps == {"broadcast_packet_all", "broadcast_packet_expect"}

\* The threads that hold the guard of current_players: a broadcast holds it
\* from its first line until it returns.
PlayersGuard == {t \in Threads : thr[t].op \in BroadcastOps /\ thr[t].last \in {"locked", "blocked"}}

\* let current_players = self.current_players.lock();
BroadcastLock(t, op, except) ==
    /\ thr[t].op = "none"
    /\ PlayersGuard = {}
    /\ thr' = [thr EXCEPT ![t] = [stack |-> << >>, op |-> op, except |-> except,
                                  last |-> "locked", failed |-> FALSE]]
    /\ UNCHANGED <<sendFrame, client, faults, enc_lock, writer_lock, socket>>

\* for (_, player) in current_players.iter() { player.client.send_packet(packet) }
\* to the end, where the guard is dropped, or until a send blocks.
BroadcastSend(t) ==
    /\ thr[t].op \in BroadcastOps
    /\ thr[t].last = "locked"
    /\ \E plan \in Plans, order \in Orders(current_players) :
         LET M == broadcast(Machine(client, plan), order, thr[t].except, Packet("P", t))
         IN  /\ client' = M.cl
             /\ faults' = faults + M.used
             /\ thr' = [thr EXCEPT ![t].last = IF M.stuck THEN "blocked" ELSE "Ok",
                                   ![t].failed = M.used > 0]
    /\ UNCHANGED <<sendFrame, enc_lock, writer_lock, socket>>

\* World::add_player, called by the task of another connection.
WorldAddPlayer(c) ==
    /\ c \notin current_players
    /\ PlayersGuard = {}
    /\ current_players' = current_players \cup {c}
    /\ UNCHANGED <<sendVars, unique_token, listener, clients, clients_lock, players,
                   client, task, received_data, net, faults, ghostVars>>

NextWorld ==
    \/ BroadcastLock(1, "broadcast_packet_all", {})
    \/ \E except \in SUBSET Tokens : BroadcastLock(2, "broadcast_packet_expect", except)
    \/ \E t \in Threads : BroadcastSend(t)
    \/ \E c \in Tokens : WorldAddPlayer(c)

SpecWorld == InitBroadcast /\ [][NextWorld]_vars

\* ------------------------------------------- chunk streaming, step by step
\* A player in Play whose spawn_player has reached the chunk streaming, its
\* connection open or already closed.
InitChunks ==
    /\ unique_token = SendConn
    /\ listener = [pc |-> "accept", token |-> 0]
    /\ clients = {}
    /\ clients_lock = SendConn
    /\ players = {SendConn}
    /\ current_players = {SendConn}
    /\ \E closed \in BOOLEAN :
         client = [c \in Tokens |->
                      IF c = SendConn
                      THEN [Client_new(c) EXCEPT !.connection_state = Play,
                                                 !.make_player = TRUE,
                                                 !.closed = closed]
                      ELSE Client_new(c)]
    /\ task = [c \in Tokens |-> IF c = SendConn
                                 THEN [NoTask EXCEPT !.pc = "chunks", !.make_player = TRUE]
                                 ELSE NoTask]
    /\ received_data = [c \in Tokens |-> << >>]
    /\ net = [c \in Tokens |-> << >>]
    /\ faults = 0
    /\ rcvd = [c \in Tokens |-> << >>]
    /\ fed = [c \in Tokens |-> << >>]
    /\ enq = [c \in Tokens |-> << >>]
    /\ handled = [c \in Tokens |-> << >>]
    /\ last_read = [c \in Tokens |-> "none"]
    /\ thr = [t \in Threads |-> IdleThread]
    /\ enc_lock = 0
    /\ writer_lock = 0
    /\ socket = << >>
    /\ fetch = [c \in Tokens |-> NoFetch]
    /\ chunk_receiver = [c \in Tokens |-> << >>]

NextChunks ==
    \/ StartChunks(SendConn, ChunkResults)
    \/ FetchChunk(SendConn)
    \/ ChunkRecv(SendConn)
    \/ ChunksDone(SendConn)
    \/ CloseWhileStreaming(SendConn)

SpecChunks == InitChunks /\ [][NextChunks]_vars

\* ------------------------------------------------------------ claims
IsPrefix(a, b) == Len(a) <= Len(b) /\ a = SubSeq(b, 1, Len(a))

\* C1: process_packets hands the queued packets to handle_packet in the
\* order add_packet queued them (FIFO).
C1_ProcessQueueFIFO == \A c \in Tokens : IsPrefix(handled[c], enq[c])

RECURSIVE Reframe(_)
\* The plain frames of a sequence of packets, concatenated.
Reframe(packets) ==
    IF packets = << >> THEN << >>
    ELSE Frame(Head(packets).id, Head(packets).bytebuf) \o Reframe(Tail(packets))

\* The bytes the last read returned.
JustRead(c) == SubSeq(rcvd'[c], Len(rcvd[c]) + 1, Len(rcvd'[c]))

\* C2: a read that returns n > 0 bytes holding only complete frames, with no
\* partial frame pending, queues every one of these frames, in stream order,
\* before the next read.
C2_ReadQueuesEveryFrame ==
    [][\A c \in Tokens :
         (/\ rcvd'[c] # rcvd[c]
          /\ client[c].dec.buf = << >>
          /\ Reframe(DecodeAll(JustRead(c))) = JustRead(c))
         => enq'[c] = enq[c] \o DecodeAll(JustRead(c))]_vars

\* The packets poll queues when the stream w arrives in one read.
OneRead(c, w) ==
    poll_data(Machine([client EXCEPT ![c] = Client_new(c)], << >>), c,
              w \o [i \in 1..(ScratchLen - Len(w)) |-> 0], Len(w)).M.cl[c].client_packets_queue

\* C3: however the stream is split across reads, the packets queued are those
\* queued when it arrives in one read, and only frames whose last byte has
\* been read are queued.
C3_ChunkingInvariance ==
    \A c \in Tokens :
        /\ IsPrefix(enq[c], DecodeAll(rcvd[c]))
        /\ (net[c] = << >> /\ rcvd[c] # << >>) => enq[c] = OneRead(c, rcvd[c])

\* C4: the bytes given to the decoder are exactly the bytes the reads
\* returned, each once and in order.
C4_FedIsRead == \A c \in Tokens : fed[c] = rcvd[c]

\* C5: the encryption flag is set exactly when the key is installed in both
\* codec halves.
C5_EncryptionFlagIffKeys ==
    \A c \in Tokens :
        client[c].encryption <=> (client[c].dec.key # << >> /\ client[c].enc.key # << >>)

\* C6: closed is false after new and, once true, never false again.
C6_ClosedMonotone ==
    /\ \A c \in Tokens : ~client[c].closed
    /\ [][\A c \in Tokens : client[c].closed => client'[c].closed]_vars

\* A closed connection on which operations went on: a second packet was
\* handled after the one whose kick closed it.
C6_Witness ==
    \E c \in Tokens :
        /\ client[c].closed
        /\ \E i \in 1..Len(client[c].sent) : client[c].sent[i].name = "CLoginDisconnect"
        /\ Len(handled[c]) = 4
        /\ task[c].pc = "ended"

\* C7: no connection has make_player and closed both true, and no closed
\* connection is handed to add_player / spawn_player.
C7_PromoteClosedExclusive ==
    \A c \in Tokens :
        /\ ~(client[c].make_player /\ client[c].closed)
        /\ task[c].pc \in {"add_player", "insert", "spawn"} => ~client[c].closed

\* C8: from its registration until its removal as closed, a token is in
\* exactly one of the pending-client map and the live-player map.
C8_AtomicTransfer ==
    \A c \in Tokens :
        (/\ task[c].pc # "none"
         /\ ~(task[c].closed /\ task[c].pc \in {"exit", "ended"}))
        => ((c \in clients) # (c \in current_players))

\* A thread waits for the enc mutex that it holds itself.
SelfBlocked(t) == thr[t].stack # << >> /\ Top(t).pc = "lock_enc" /\ enc_lock = t

\* C9: send_packet never blocks on itself, and when the encoding or the
\* write has failed it returns with the closed flag set.
C9_SendPacketReturns ==
    \A t \in Threads :
        thr[t].op = "send_packet" =>
            /\ ~SelfBlocked(t)
            /\ (thr[t].stack = << >> /\ thr[t].failed) => client[SendConn].closed

\* The bytes of thread t's own packet.
EncOwn(t) == PacketEncoder_append_packet(client[SendConn].enc, OwnPacket(t).id,
                                         OwnPacket(t).payload)
\* Thread t has returned from a send that did not fail.
Sent(t) ==
    /\ thr[t].op \in {"send_packet", "try_send_packet"}
    /\ thr[t].stack = << >>
    /\ ~thr[t].failed
OwnBytes(t) == Bytes(SelectSeq(socket, LAMBDA e : e.pkt = <<t, "own">>))

\* C10: every byte on the socket was written by the call that sends its
\* packet and follows the byte before it of the same packet; a send that
\* returned without failure has written its whole packet; and when two
\* threads alone have sent, the socket holds enc(A) enc(B) or enc(B) enc(A).
C10_WritesSerialized ==
    /\ \A k \in 1..Len(socket) :
         /\ socket[k].by = socket[k].pkt[1]
         /\ socket[k].i > 1 =>
              /\ k > 1
              /\ socket[k - 1].pkt = socket[k].pkt
              /\ socket[k - 1].i = socket[k].i - 1
    /\ \A t \in Threads : Sent(t) => OwnBytes(t) = EncOwn(t)
    /\ \A a, b \in Threads :
         (/\ a # b
          /\ Sent(a)
          /\ Sent(b)
          /\ \A t \in Threads \ {a, b} : thr[t].op = "none")
         => Bytes(socket) \in {EncOwn(a) \o EncOwn(b), EncOwn(b) \o EncOwn(a)}

\* Two concurrent send_packet calls have both returned, the second one
\* having waited for the enc mutex while the first was writing.
C10_Witness ==
    \E a, b \in Threads :
        /\ a # b
        /\ thr[a].op = "send_packet" /\ thr[b].op = "send_packet"
        /\ Sent(a) /\ Sent(b)
        /\ Bytes(socket) = EncOwn(b) \o EncOwn(a)

\* Thread t called kick and kick has returned.
KickReturned(t) == thr[t].op = "kick" /\ thr[t].stack = << >>
\* The bytes of thread t's disconnect packet on the socket.
DisconnectBytes(t) == Bytes(SelectSeq(socket, LAMBDA e : e.pkt = <<t, "disconnect">>))
\* The frame of the disconnect packet kick sends in a state, none in the
\* states without one.
DisconnectFrame(st) ==
    CASE st = Login -> Frame(CLoginDisconnect_ID, << >>)
      [] st = Config -> Frame(CConfigDisconnect_ID, << >>)
      [] st = Play -> Frame(CPlayDisconnect_ID, << >>)
      [] OTHER -> << >>

\* C11: when kick returns the closed flag is set; it has written exactly the
\* one disconnect frame of the state (Login, Config, Play), only a proper
\* part of it when the send failed, and nothing in HandShake, Status and
\* Transfer.
C11_KickEndsClosed ==
    \A t \in Threads :
        KickReturned(t) =>
            /\ client[SendConn].closed
            /\ IF thr[t].failed
               THEN /\ IsPrefix(DisconnectBytes(t),
                                DisconnectFrame(client[SendConn].connection_state))
                    /\ DisconnectBytes(t) # DisconnectFrame(client[SendConn].connection_state)
               ELSE DisconnectBytes(t) = DisconnectFrame(client[SendConn].connection_state)

\* A kick in Login has returned after its disconnect packet failed to be
\* written, and another kick has returned after sending it.
C11_Witness ==
    \E a, b \in Threads :
        /\ KickReturned(a) /\ thr[a].failed
        /\ KickReturned(b) /\ ~thr[b].failed
        /\ client[SendConn].connection_state = Login
        /\ client[SendConn].closed
        /\ DisconnectBytes(b) = Frame(CLoginDisconnect_ID, << >>)

\* The packet ids the table of a state lists.
TableIds(state) ==
    CASE state = HandShake -> {SHandShake_ID}
      [] state = Status -> {SStatusRequest_ID, SStatusPingRequest_ID}
      [] state \in {Login, Transfer} ->
           {SLoginStart_ID, SEncryptionResponse_ID, SLoginPluginResponse_ID,
            SLoginAcknowledged_ID}
      [] state = Config ->
           {SClientInformationConfig_ID, SPluginMessage_ID, SAcknowledgeFinishConfig_ID,
            SKnownPacks_ID}
      [] OTHER -> {}

\* process_packets has just given a packet of connection c to handle_packet.
Dispatched(c) == handled'[c] # handled[c]
\* That packet.
LastHandled(c) == handled'[c][Len(handled'[c])]

\* C12: handling a packet whose id the table of the current state does not
\* list returns Ok and changes nothing of the connection but the queue it
\* was taken from: state, closed, make_player, encryption, codec settings
\* and the packets sent are as before.
C12_UnknownIdDropped ==
    [][\A c \in Tokens :
         (Dispatched(c) /\ LastHandled(c).id \notin TableIds(client[c].connection_state))
         => /\ \E q \in {client'[c].client_packets_queue} :
                 client'[c] = [client[c] EXCEPT !.client_packets_queue = q]
            /\ Len(client'[c].client_packets_queue) = Len(client[c].client_packets_queue) - 1
            /\ task'[c].pc = "process"]_vars

\* A PingRequest was handled in HandShake, whose table does not list its id,
\* and the connection is as new.
C12_Witness ==
    \E c \in Tokens :
        /\ handled[c] = <<[id |-> SStatusPingRequest_ID, bytebuf |-> <<9>>]>>
        /\ client[c].connection_state = HandShake
        /\ ~client[c].closed
        /\ client[c].sent = << >>
        /\ task[c].pc = "process"

\* The names of the packets the last step sent to connection c.
NewlySent(c) ==
    {client'[c].sent[i].name : i \in (Len(client[c].sent) + 1)..Len(client'[c].sent)}

\* C13: a handler runs only in the state it belongs to and on its own packet
\* id.  Each handler is known by what it does: the handshake handler stores
\* the protocol version and leaves HandShake, the status handlers answer
\* with StatusResponse / PingResponse, login start with EncryptionRequest,
\* encryption response sets the encryption flag, the profile and the
\* compression, login acknowledged enters Config, client information and
\* plugin message store config and brand, acknowledge finish config enters
\* Play and sets make_player.
C13_HandlerInItsState ==
    [][\A c \in Tokens :
         Dispatched(c) =>
             LET s == client[c].connection_state
                 id == LastHandled(c).id
                 o == client[c]
                 n == client'[c]
             IN  /\ (n.protocol_version # o.protocol_version
                     \/ (n.connection_state # s /\ n.connection_state \in {Status, Login, Transfer}))
                    => (s = HandShake /\ id = SHandShake_ID)
                 /\ "CStatusResponse" \in NewlySent(c)
                    => (s = Status /\ id = SStatusRequest_ID)
                 /\ "CPingResponse" \in NewlySent(c)
                    => (s = Status /\ id = SStatusPingRequest_ID)
                 /\ "CEncryptionRequest" \in NewlySent(c)
                    => (s \in {Login, Transfer} /\ id = SLoginStart_ID)
                 /\ (n.encryption # o.encryption
                     \/ n.gameprofile # o.gameprofile
                     \/ n.enc.key # o.enc.key
                     \/ n.dec.key # o.dec.key
                     \/ n.enc.compression # o.enc.compression
                     \/ n.dec.compression # o.dec.compression
                     \/ NewlySent(c) \cap {"CSetCompression", "CLoginSuccess"} # {})
                    => (s \in {Login, Transfer} /\ id = SEncryptionResponse_ID)
                 /\ (n.connection_state # s /\ n.connection_state = Config)
                    => (s \in {Login, Transfer} /\ id = SLoginAcknowledged_ID)
                 /\ n.config # o.config
                    => (s = Config /\ id = SClientInformationConfig_ID)
                 /\ n.brand # o.brand
                    => (s = Config /\ id = SPluginMessage_ID)
                 /\ (n.make_player # o.make_player
                     \/ (n.connection_state # s /\ n.connection_state = Play))
                    => (s = Config /\ id = SAcknowledgeFinishConfig_ID)]_vars

\* The six packets of a login have been handled, each by its handler in its
\* state, up to Play.
C13_Witness ==
    \E c \in Tokens :
        /\ Len(handled[c]) = 6
        /\ client[c].connection_state = Play
        /\ client[c].make_player
        /\ client[c].config # << >>
        /\ client[c].encryption
        /\ client[c].protocol_version = 4

\* The body of the packet just handled was not one its handler can read.
HandlerFailed(c) ==
    /\ Dispatched(c)
    /\ LastHandled(c).id \in TableIds(client[c].connection_state)
    /\ ~ReadOk(Handler(client[c].connection_state, LastHandled(c).id), LastHandled(c).bytebuf)

\* The name of the disconnect packet of a state.
DisconnectName(st) ==
    CASE st = Login -> "CLoginDisconnect"
      [] st = Config -> "CConfigDisconnect"
      [] st = Play -> "CPlayDisconnect"

\* C14: when the handler of a queued packet returns an error, process_packets
\* kicks: the closed flag is set, in Login, Config and Play the disconnect
\* packet of the state is sent (unless its write fails), in the other states
\* nothing is sent, and process_packets goes on.
C14_HandlerErrorKicks ==
    [][\A c \in Tokens :
         HandlerFailed(c) =>
             LET s == client[c].connection_state
                 new == SubSeq(client'[c].sent, Len(client[c].sent) + 1, Len(client'[c].sent))
             IN  /\ client'[c].closed
                 /\ client'[c].connection_state = s
                 /\ task'[c].pc = "process"
                 /\ IF s \in {Login, Config, Play}
                    THEN \/ /\ Len(new) = 1
                            /\ new[1].name = DisconnectName(s)
                            /\ faults' = faults
                         \/ /\ new = << >>
                            /\ faults' = faults + 1
                    ELSE new = << >> /\ faults' = faults]_vars

\* A ClientInformation that cannot be read was handled in Config: the
\* connection is closed and the ConfigDisconnect is the last packet sent.
C14_Witness ==
    \E c \in Tokens :
        /\ handled[c] # << >>
        /\ handled[c][Len(handled[c])] = [id |-> SClientInformationConfig_ID, bytebuf |-> << >>]
        /\ client[c].connection_state = Config
        /\ client[c].closed
        /\ client[c].sent # << >>
        /\ client[c].sent[Len(client[c].sent)].name = "CConfigDisconnect"

\* C15: a connection of the pending-client map whose closed flag is set is
\* eventually removed from the map.
C15_ClosedPendingRemoved ==
    \A c \in 1..MaxClients : (client[c].closed /\ c \in clients) ~> (c \notin clients)

\* C16: a live player whose connection is closed is eventually removed from
\* the live-player map, and the connection of a player keeps being polled
\* after its promotion.
C16_ClosedPlayerRemoved ==
    \A c \in 1..MaxClients :
        /\ (c \in current_players /\ client[c].closed) ~> (c \notin current_players)
        /\ (c \in players) ~> (task[c].pc \in {"player_poll", "poll"})

\* C17: the task keeps reading a connection that stays open: the bytes its
\* peer sends later, after the first pass over the queue, are eventually
\* read (and so queued and handled).
C17_OpenConnectionServed ==
    \A c \in 1..MaxClients :
        (c \in clients /\ net[c] # << >> /\ ~client[c].closed)
        ~> (net[c] = << >> \/ client[c].closed)

\* C18: the guard of the pending-client map is not held while a connection
\* task polls, processes its queue, or promotes its connection.
C18_PendingLockShort ==
    \A c \in Tokens :
        task[c].pc \in {"poll", "process", "add_player", "spawn"} => clients_lock = 0


\* The tokens given out so far: those whose connection task was spawned.
Assigned == {c \in Tokens : task[c].pc # "none"}

\* C19: the token the accept loop has just assigned is greater than every
\* token assigned before, is the value of the counter, and is not a key of
\* the pending-client map it is about to be inserted into; the counter never
\* decreases.
C19_TokensUniqueMonotone ==
    /\ [](listener.pc = "lock" =>
            /\ \A c \in Assigned : c < listener.token
            /\ listener.token = unique_token
            /\ listener.token \notin clients \cup players \cup current_players)
    /\ [](\A c \in Assigned : c <= unique_token /\ client[c].id = c)
    /\ [][unique_token' > unique_token \/ unique_token' = unique_token]_vars

\* A second socket has been accepted while the first token is taken, by a
\* player or by a connection still in the pending-client map.
C19_Witness ==
    /\ listener = [pc |-> "lock", token |-> 2]
    /\ Assigned = {1}
    /\ 1 \in current_players \cup clients

\* The number of copies of thread t's packet sent to connection c.
Copies(t, c) ==
    Cardinality({i \in 1..Len(client[c].sent) : client[c].sent[i].arg = t
                                                /\ client[c].sent[i].name = "P"})

\* C20: when a broadcast has returned, every live player whose token is not
\* in the exclusion list has been sent the packet exactly once and everyone
\* else not at all; a broadcast that is blocked in a send has sent it at
\* most once to the former and not at all to the latter.  The live-player
\* map is as before.
C20_BroadcastExcept ==
    /\ [](\A t \in Threads :
            thr[t].op \in {"broadcast_packet_all", "broadcast_packet_expect"} =>
                \A c \in Tokens :
                    IF c \in current_players \ thr[t].except
                    THEN IF thr[t].last = "Ok" THEN Copies(t, c) = 1 ELSE Copies(t, c) <= 1
                    ELSE Copies(t, c) = 0)
    /\ [][current_players' = current_players]_vars

\* With players {1, 2, 3} a broadcast that excludes [2] has returned: 1 and 3
\* hold one copy each, 2 none.
C20_Witness ==
    \E t \in Threads :
        /\ current_players = {1, 2, 3}
        /\ thr[t].op = "broadcast_packet_expect"
        /\ thr[t].except = {2}
        /\ thr[t].last = "Ok"
        /\ Copies(t, 1) = 1 /\ Copies(t, 3) = 1 /\ Copies(t, 2) = 0

\* The bytes of the status ping: Handshake(next_state = 1), StatusRequest,
\* PingRequest, in this order.
StatusPingWire == FHandshake(1) \o FStatusRequest \o FPingRequest

\* The packets sent to connection c, without the codec settings.
SentPackets(c) == [i \in 1..Len(client[c].sent) |-> Packet(client[c].sent[i].name,
                                                           client[c].sent[i].arg)]

\* C21: when the task of a connection whose peer sent the status ping, and
\* nothing else, is over, the peer having kept its side open (the last read
\* found nothing more to read) and no write having failed, the connection is
\* in state Status, was sent the StatusResponse and then the PingResponse
\* with the payload of the request, and is closed; however the reads grouped
\* the bytes.
C21_StatusPing ==
    \A c \in Tokens :
        (/\ rcvd[c] = StatusPingWire
         /\ net[c] = << >>
         /\ last_read[c] = "would_block"
         /\ faults = 0
         /\ task[c].pc = "ended")
        => /\ client[c].connection_state = Status
           /\ SentPackets(c) = <<Packet("CStatusResponse", 0), Packet("CPingResponse", 9)>>
           /\ client[c].closed

\* spawn_player has just run for the new player c, to its end or until a
\* send blocked.
Spawned(c) == task[c].pc = "spawn" /\ task'[c].pc # "spawn"

\* The packets the last step sent to connection d, in order.
NewPackets(d) ==
    [i \in 1..(Len(client'[d].sent) - Len(client[d].sent)) |->
        Packet(client'[d].sent[Len(client[d].sent) + i].name,
               client'[d].sent[Len(client[d].sent) + i].arg)]

\* The place of a packet in the order spawn_player is specified to keep
\* towards the new player c.
SpawnRank(p, c) ==
    CASE p.name = "CLogin" -> 1
      [] p.name = "CPlayerAbilities" -> 2
      [] p.name = "CPlayerInfoUpdate" -> IF p.arg = <<c>> THEN 3 ELSE 4
      [] p.name = "CSpawnEntity" -> 5
      [] p.name = "CGameEvent" -> 6
      [] OTHER -> 0

\* The places of the packets named `name` in a sequence of packets.
Places(seq, name) == {i \in DOMAIN seq : seq[i].name = name}

Range(f) == {f[i] : i \in DOMAIN f}
Count(seq, p) == Cardinality({i \in DOMAIN seq : seq[i] = p})

\* C22: what spawn_player sends the new player c is, in this order, Login,
\* PlayerAbilities, the PlayerInfoUpdate of c, the PlayerInfoUpdate that
\* lists the players already joined, one SpawnEntity for each of them,
\* GameEvent StartWaitingChunks (a spawn_player that blocks in a send has
\* sent a beginning of this), and ChunkData only after the GameEvent; the
\* lists of joined players do not hold c, and the SpawnEntity of c goes once
\* to every other live player and never to c.
C22_SpawnOrder ==
    [][\A c \in Tokens :
         /\ Places(NewPackets(c), "CChunkData") # {} =>
               /\ Places(client[c].sent, "CGameEvent") # {}
               /\ task[c].pc = "recv"
         /\ Spawned(c) =>
             LET new == SelectSeq(NewPackets(c), LAMBDA p : p.name # "CSetEntityMetadata")
                 others == current_players \ {c}
                 k == Cardinality(others)
                 returned == task'[c].pc = "chunks"
             IN  /\ \A i, j \in 1..Len(new) :
                       i < j => SpawnRank(new[i], c) <= SpawnRank(new[j], c)
                 /\ \A i \in 1..Len(new) :
                       /\ SpawnRank(new[i], c) > 0
                       /\ SpawnRank(new[i], c) = 4 => Range(new[i].arg) = others
                       /\ SpawnRank(new[i], c) = 5 =>
                            new[i].arg \in others /\ Count(new, new[i]) = 1
                       /\ SpawnRank(new[i], c) \in 1..4 \cup {6} => Count(new, new[i]) = 1
                 /\ returned =>
                       /\ {SpawnRank(new[i], c) : i \in 1..Len(new)} \ {5} = {1, 2, 3, 4, 6}
                       /\ {new[i].arg : i \in {j \in 1..Len(new) : new[j].name = "CSpawnEntity"}}
                            = others
                 /\ \A d \in others :
                       /\ Count(NewPackets(d), Packet("CSpawnEntity", c)) <= 1
                       /\ returned => Count(NewPackets(d), Packet("CSpawnEntity", c)) = 1
                 /\ \A d \in Tokens \ current_players : NewPackets(d) = << >>]_vars

\* Player 2 has joined while player 1 was live: 2 was sent the list holding
\* 1, the SpawnEntity of 1 and chunks; 1 was sent the SpawnEntity of 2.
C22_Witness ==
    /\ current_players = {1, 2}
    /\ task[2].pc = "exit"
    /\ \E i, j, k \in 1..Len(client[2].sent) :
         /\ i < j /\ j < k
         /\ client[2].sent[i].name = "CPlayerInfoUpdate" /\ client[2].sent[i].arg = <<1>>
         /\ client[2].sent[j].name = "CSpawnEntity" /\ client[2].sent[j].arg = 1
         /\ client[2].sent[k].name = "CChunkData"
    /\ \E i \in 1..Len(client[1].sent) :
         client[1].sent[i].name = "CSpawnEntity" /\ client[1].sent[i].arg = 2

\* C23: a spawn_player that returns, for a new player c whose connection is
\* open, has sent every live player exactly one SetEntityMetadata, with the
\* skin parts of c when c has a PlayerConfig, and has sent it to c before
\* GameEvent StartWaitingChunks; also when c has no PlayerConfig.
C23_SkinPartsBroadcast ==
    [][\A c \in Tokens :
         (Spawned(c) /\ task'[c].pc = "chunks" /\ ~client[c].closed) =>
             /\ \A d \in current_players :
                   /\ Cardinality(Places(NewPackets(d), "CSetEntityMetadata")) = 1
                   /\ client[c].config # << >> =>
                        \A i \in Places(NewPackets(d), "CSetEntityMetadata") :
                            NewPackets(d)[i].arg = client[c].config[1]
             /\ \A i \in Places(NewPackets(c), "CSetEntityMetadata"),
                   j \in Places(NewPackets(c), "CGameEvent") : i < j]_vars

\* C24: once the closed flag of the connection is set, the chunk producer
\* puts no further chunk into the channel, and no ChunkData is sent to the
\* connection.
C24_ChunksCancelled ==
    [][\A c \in Tokens :
         client[c].closed =>
             /\ Len(chunk_receiver'[c]) <= Len(chunk_receiver[c])
             /\ Places(NewPackets(c), "CChunkData") = {}]_vars

\* poll has just got the outcome of a read on connection c.
ReadReturned(c) ==
    /\ task[c].pc = "poll"
    /\ rcvd'[c] # rcvd[c] \/ last_read'[c] # last_read[c]
\* The read returned Ok(n), n > 0.
ReadData(c) == rcvd'[c] # rcvd[c]
\* The decoder fails on what that read gave it.
DecodeFailed(c) ==
    PacketDecoder_decode(queue_slice(client[c].dec, received_data'[c])).st = "err"

\* C25: poll reads only while the connection is not closed, and returns at
\* once when it is.  A read of 0 bytes closes and poll returns; WouldBlock
\* leaves the connection as it is and poll returns; Interrupted leaves it as
\* it is and poll reads again; any other error closes; a read of n > 0 bytes
\* closes exactly when the decoder fails, by a kick (in Login the disconnect
\* packet is sent unless its write fails).
C25_PollOutcomes ==
    [][\A c \in Tokens :
         /\ (task[c].pc = "poll" /\ client[c].closed) =>
               /\ ~ReadReturned(c)
               /\ task'[c] # task[c] => task'[c].pc = "polled"
         /\ (ReadReturned(c) /\ ~ReadData(c)) =>
               CASE last_read'[c] = "zero" -> client'[c].closed /\ task'[c].pc = "polled"
                 [] last_read'[c] = "would_block" ->
                      client'[c] = client[c] /\ task'[c].pc = "polled"
                 [] last_read'[c] = "interrupted" ->
                      client'[c] = client[c] /\ task'[c].pc = "poll"
                 [] last_read'[c] = "error" -> client'[c].closed
                 [] OTHER -> FALSE
         /\ (ReadReturned(c) /\ ReadData(c)) =>
               /\ last_read'[c] = "data"
               /\ client'[c].closed = DecodeFailed(c)
               /\ client'[c].connection_state = client[c].connection_state
               /\ IF DecodeFailed(c) /\ client[c].connection_state = Login
                  THEN \/ /\ NewPackets(c) = <<Packet("CLoginDisconnect", 0)>>
                          /\ faults' = faults
                       \/ /\ NewPackets(c) = << >>
                          /\ faults' = faults + 1
                  ELSE NewPackets(c) = << >> /\ faults' = faults]_vars

\* A poll in Login has returned because the decoder failed on the bytes of
\* a read: the connection was kicked with the LoginDisconnect and is closed.
C25_Witness ==
    \E c \in Tokens :
        /\ task[c].pc = "polled"
        /\ last_read[c] = "data"
        /\ client[c].closed
        /\ client[c].connection_state = Login
        /\ SentPackets(c) = <<Packet("CLoginDisconnect", 0)>>

\* C26: a broadcast sends only after it has released the guard of the
\* live-player map, and a broadcast blocked in a send does not hold it (so
\* that add_player and remove_player of other tasks go on).
C26_BroadcastLockFree ==
    /\ [][(\E d \in Tokens : NewPackets(d) # << >>) => PlayersGuard = {}]_vars
    /\ [](\A t \in Threads : thr[t].last = "blocked" => PlayersGuard = {})

\* C27: process_packets gives no packet of a closed connection to a handler:
\* a packet handled when the closed flag is set has an id without an entry
\* in the table of the state, and leaves the state, the encryption flag and
\* make_player as they are.
C27_ClosedNotDispatched ==
    [][\A c \in Tokens :
         (Dispatched(c) /\ client[c].closed) =>
             /\ LastHandled(c).id \notin TableIds(client[c].connection_state)
             /\ client'[c].connection_state = client[c].connection_state
             /\ client'[c].encryption = client[c].encryption
             /\ client'[c].make_player = client[c].make_player]_vars

====
